---- MODULE Spec2Model ----
(***************************************************************************)
(* Retail demand forecasting script (src/app1.py).                         *)
(*                                                                         *)
(* The script is re-executed from top to bottom each time a file is        *)
(* uploaded or a widget changes.  One run is modelled as the sequence of   *)
(* its stages, pc naming the stage about to execute:                       *)
(*   read -> select -> aggregate -> fit -> forecast -> pie -> bar -> done  *)
(* (pie: the ranking and the pie chart of the top 5, lines 105-116; bar:   *)
(* the ranking of the top 10, lines 122-123).                              *)
(* An exception raised by a stage ends the run in pc = "error".            *)
(*                                                                         *)
(* Representation.                                                         *)
(*  - A CSV cell is a tuple: <<>> is an empty cell (NaN after read_csv),  *)
(*    <<v>> a present value.  InvoiceDate is <<day, hour>>; an hour        *)
(*    outside 0..23 is text that pd.to_datetime cannot parse.              *)
(*  - A timestamp is the number of hours since day 0, a calendar date the  *)
(*    number of days since day 0.                                          *)
(*  - Quantity and UnitPrice are integers, so every sum is exact.  The     *)
(*    regression is kept as exact fractions over a common denominator      *)
(*    (model.den); the rounded forecast is kept in hundredths.             *)
(*  - Non-numeric Quantity/UnitPrice text and missing columns are outside  *)
(*    the input domain.                                                    *)
(***************************************************************************)
EXTENDS Integers, Sequences, FiniteSets, TLC

VARIABLES
    uploaded_file,    \* <<>> (no file) or <<rows>>: the uploaded CSV's rows
    pc,               \* stage of the current run
    error,            \* "" or the exception that ended the run
    df,               \* the data frame (cleaned, then filtered by country)
    country,          \* <<>> (None) or <<c>>: the selectbox's value
    daily_sales,      \* sequence of [date, daily_total_sales]
    daily_units,      \* sequence of [date, daily_units_sold]
    model,            \* <<>> or <<[coef_num, intercept_num, den]>>
    requested_days,   \* the horizon the user asked the slider for (0 before)
    forecast_days,    \* the slider's value (0 before it is read)
    forecasted_sales, \* model.predict's values, numerators over model.den
    forecast_df,      \* sequence of [date, forecasted_sales (hundredths)]
    product_sales,    \* sequence of [Description, TotalSales], sorted
    top_products      \* head of product_sales

vars == <<uploaded_file, pc, error, df, country, daily_sales, daily_units,
          model, requested_days, forecast_days, forecasted_sales,
          forecast_df, product_sales, top_products>>

----------------------------------------------------------------------------
(* Bounds of the explored inputs. *)

\* Longest uploaded file of the general and the defect families.
MaxRows == 2

\* Calendar days 0..MaxDay carry transactions.
MaxDay == 2

----------------------------------------------------------------------------
(* Constants of the program. *)

\* resample('D'): one bin per calendar day of 24 hours.
HoursPerDay == 24

\* st.slider(..., 7, 90, 30)
SliderMin == 7

SliderMax == 90

SliderDefault == 30

\* product_sales.head(5)
PieTop == 5

\* product_sales.head(10)
BarTop == 10

\* .round(2): the forecast is rounded to hundredths.
RoundScale == 100

----------------------------------------------------------------------------
(* Inputs. *)

Cell(v) == <<v>>

Null == <<>>

CsvRow(date, q, u, c, d, o) ==
    [InvoiceDate |-> date, Quantity |-> q, UnitPrice |-> u,
     Country |-> c, Description |-> d, CustomerID |-> o]

ValidRow(day, hour, q, c, d) ==
    CsvRow(<<day, hour>>, Cell(q), Cell(100), Cell(c), Cell(d), Cell(1))

\* Well-formed rows: sales and returns of one country and sales of another
\* on every day, afternoon transactions and a second product.
GeneralRows ==
    {ValidRow(day, 0, q, "A", "p") : day \in 0..MaxDay, q \in {-1, 2}}
    \cup {ValidRow(day, 0, 2, "B", "p") : day \in 0..MaxDay}
    \cup {ValidRow(day, 12, 1, "A", "p") : day \in 0..MaxDay}
    \cup {ValidRow(0, 0, q, "A", "q") : q \in {1, 2}}

\* Rows with one defect each, next to two well-formed ones.
DefectRows ==
    { ValidRow(0, 0, 1, "A", "p"),
      ValidRow(1, 0, 2, "B", "p"),
      CsvRow(Null, Cell(1), Cell(100), Cell("A"), Cell("p"), Cell(1)),
      CsvRow(<<0, HoursPerDay>>, Cell(1), Cell(100), Cell("A"), Cell("p"), Cell(1)),
      CsvRow(<<0, 0>>, Null, Cell(100), Cell("A"), Cell("p"), Cell(1)),
      CsvRow(<<0, 0>>, Cell(1), Null, Cell("A"), Cell("p"), Cell(1)),
      CsvRow(<<0, 0>>, Cell(1), Cell(100), Null, Cell("p"), Cell(1)),
      CsvRow(<<0, 0>>, Cell(1), Cell(100), Cell("A"), Null, Cell(1)),
      CsvRow(<<0, 0>>, Cell(1), Cell(100), Cell("A"), Cell("p"), Null) }

FilesOver(rows) == UNION {[1..n -> rows] : n \in 0..MaxRows}

\* One row per product, more products than the pie and the bar chart show;
\* the totals differ, but for the second and third product, which may tie.
TopDescriptions == <<"a", "b", "c", "d", "e", "f", "g", "h", "i", "j", "k">>

TopRow(i, high) ==
    ValidRow(0, 0,
             IF ~high THEN 2 * i ELSE IF i = 2 THEN 6 ELSE 2 * i + 3,
             "A", TopDescriptions[i])

TopFiles ==
    UNION {{[i \in 1..n |-> TopRow(i, f[i])] : f \in [1..n -> BOOLEAN]} :
              n \in {PieTop + 1, BarTop + 1}}

InputFiles == FilesOver(GeneralRows) \cup FilesOver(DefectRows) \cup TopFiles

\* Horizons a user may ask for, one of them below the slider's range.
HorizonRequests == {SliderMin - 1, SliderMin, SliderDefault, SliderMax}

\* st.slider(..., 7, 90, 30): the values the slider can return.
SliderValues == {h \in HorizonRequests : SliderMin <= h /\ h <= SliderMax}

----------------------------------------------------------------------------
(* Cleaning: read_csv, dropna, to_datetime, TotalSale (lines 37-41). *)

Columns ==
    {"InvoiceDate", "Quantity", "UnitPrice", "Country", "Description",
     "CustomerID"}

\* dropna() keeps the rows without an empty cell in any column.
HasNoNull(r) == \A col \in Columns : r[col] # Null

DropNa(rows) == SelectSeq(rows, HasNoNull)

Parseable(date) == Len(date) = 2 /\ date[2] \in 0..(HoursPerDay - 1)

ToDatetime(date) == date[1] * HoursPerDay + date[2]

TotalSaleOf(q, u) == q * u

Record(r) ==
    [InvoiceDate |-> ToDatetime(r.InvoiceDate),
     Quantity    |-> r.Quantity[1],
     UnitPrice   |-> r.UnitPrice[1],
     Country     |-> r.Country[1],
     Description |-> r.Description[1],
     TotalSale   |-> TotalSaleOf(r.Quantity[1], r.UnitPrice[1])]

----------------------------------------------------------------------------
(* Country filter (lines 45-46). *)

CountryOptions(d) == {d[i].Country : i \in 1..Len(d)}

\* Variant: the country filter is left out.
FilterNothing(d, c) == d

FilterCountry(d, c) ==
    LET Match(r) == r.Country = c IN SelectSeq(d, Match)

----------------------------------------------------------------------------
(* Daily aggregation (lines 49-54). *)

DateOf(ts) == ts \div HoursPerDay

RECURSIVE SumWhere(_, _, _, _)
\* Sum of column col over the rows of d, in row order, whose key matches.
SumWhere(d, col, keycol, key) ==
    IF d = <<>> THEN 0
    ELSE (IF Head(d)[keycol] = key THEN Head(d)[col] ELSE 0)
         + SumWhere(Tail(d), col, keycol, key)

\* groupby('InvoiceDate')[col].sum(): one total per distinct timestamp.
GroupByInvoiceDate(d, col) ==
    [ts \in {d[i].InvoiceDate : i \in 1..Len(d)} |->
        SumWhere(d, col, "InvoiceDate", ts)]

RECURSIVE SetSum(_, _)
SetSum(g, keys) ==
    IF keys = {} THEN 0
    ELSE LET k == CHOOSE x \in keys : TRUE
         IN  g[k] + SetSum(g, keys \ {k})

SetMin(S) == CHOOSE x \in S : \A y \in S : x <= y

SetMax(S) == CHOOSE x \in S : \A y \in S : x >= y

\* Variant: one bin per day that has transactions, no bin for a day without.
ResampleNoFill(g) ==
    LET days    == {DateOf(ts) : ts \in DOMAIN g}
        Rank(d) == Cardinality({e \in days : e <= d})
    IN  [i \in 1..Cardinality(days) |->
            LET d == CHOOSE e \in days : Rank(e) = i
            IN  [date  |-> d,
                 value |-> SetSum(g, {ts \in DOMAIN g : DateOf(ts) = d})]]

\* resample('D').sum().fillna(0): one bin per calendar day from the first to
\* the last timestamp's day; an empty bin sums to 0.
ResampleDaily(g) ==
    IF DOMAIN g = {} THEN <<>>
    ELSE LET first == DateOf(SetMin(DOMAIN g))
             last  == DateOf(SetMax(DOMAIN g))
         IN  [i \in 1..(last - first + 1) |->
                [date  |-> first + i - 1,
                 value |-> SetSum(g, {ts \in DOMAIN g :
                                        DateOf(ts) = first + i - 1})]]

DailySales(d) ==
    LET s == ResampleDaily(GroupByInvoiceDate(d, "TotalSale"))
    IN  [i \in 1..Len(s) |->
            [date |-> s[i].date, daily_total_sales |-> s[i].value]]

DailyUnits(d) ==
    LET s == ResampleDaily(GroupByInvoiceDate(d, "Quantity"))
    IN  [i \in 1..Len(s) |->
            [date |-> s[i].date, daily_units_sold |-> s[i].value]]

----------------------------------------------------------------------------
(* Linear regression (lines 74-79, 85-86). *)

\* np.arange(len(daily_sales))
DayNumbers(n) == [i \in 1..n |-> i - 1]

RECURSIVE SeqSum(_)
SeqSum(s) == IF s = <<>> THEN 0 ELSE Head(s) + SeqSum(Tail(s))

\* Variant: fit_intercept=False, a line through the origin.
FitThroughOrigin(X, y) ==
    LET n   == Len(X)
        sxx == SeqSum([i \in 1..n |-> X[i] * X[i]])
        sxy == SeqSum([i \in 1..n |-> X[i] * y[i]])
    IN  IF sxx = 0
        THEN [coef_num |-> 0, intercept_num |-> 0, den |-> 1]
        ELSE [coef_num |-> sxy, intercept_num |-> 0, den |-> sxx]

\* LinearRegression().fit(X, y) for one regressor, with intercept:
\*   coef = Sxy / Sxx of the centred data (0 when Sxx = 0, the minimum-norm
\*   least-squares solution), intercept = mean(y) - coef * mean(X).
\* Both are kept over the common denominator den > 0.
Fit(X, y) ==
    LET n   == Len(X)
        sx  == SeqSum(X)
        sy  == SeqSum(y)
        sxx == SeqSum([i \in 1..n |-> X[i] * X[i]])
        sxy == SeqSum([i \in 1..n |-> X[i] * y[i]])
        d   == n * sxx - sx * sx
        c   == n * sxy - sx * sy
    IN  IF d = 0
        THEN [coef_num |-> 0, intercept_num |-> sy, den |-> n]
        ELSE [coef_num |-> n * c, intercept_num |-> sy * d - c * sx,
              den |-> n * d]

\* np.arange(len(daily_sales), len(daily_sales) + forecast_days)
FutureDayNumbers(n, h) == [k \in 1..h |-> n + k - 1]

\* model.predict(x), as a numerator over m.den
Predict(m, x) == m.intercept_num + m.coef_num * x

----------------------------------------------------------------------------
(* Forecast frame (lines 88-91). *)

\* Variant: the range starts on the last historical day.
FutureDatesFromLast(last_date, h) == [k \in 1..h |-> last_date + k - 1]

\* pd.date_range(start=last_date + 1 day, periods=h)
FutureDates(last_date, h) == [k \in 1..h |-> last_date + k]

\* Variant: no clipping.
NoClip(num) == num

\* .clip(lower=0)
ClipLower(num) == IF num < 0 THEN 0 ELSE num

\* Rounding p/q (p >= 0, q > 0) to the nearest integer, halves to even.
RoundHalfEven(p, q) ==
    LET f == p \div q
        r == p % q
    IN  IF 2 * r < q THEN f
        ELSE IF 2 * r > q THEN f + 1
        ELSE IF f % 2 = 0 THEN f ELSE f + 1

\* .round(2), the result in hundredths
Round2(num, den) == RoundHalfEven(RoundScale * num, den)

----------------------------------------------------------------------------
(* Product ranking (lines 105-110, 122-123). *)

\* df['TotalSales'] = df['Quantity'] * df['UnitPrice']
WithTotalSales(d) ==
    [i \in 1..Len(d) |->
        [Description |-> d[i].Description,
         TotalSales  |-> TotalSaleOf(d[i].Quantity, d[i].UnitPrice)]]

\* groupby('Description')['TotalSales'].sum(): one entry per product.
ProductTotals(d) ==
    {[Description |-> desc,
      TotalSales  |-> SumWhere(WithTotalSales(d), "TotalSales",
                               "Description", desc)] :
        desc \in {d[i].Description : i \in 1..Len(d)}}

RECURSIVE SortedDescending(_)
\* sort_values(ascending=False): the orders of the entries by falling total.
\* The default sort is not stable, so products with equal totals may come
\* out in any order.
SortedDescending(entries) ==
    IF entries = {} THEN {<<>>}
    ELSE UNION {{<<e>> \o rest : rest \in SortedDescending(entries \ {e})} :
                e \in {x \in entries :
                          \A y \in entries : x.TotalSales >= y.TotalSales}}

\* Variant: the whole ranking.
HeadAll(s, n) == s

HeadN(s, n) == SubSeq(s, 1, IF Len(s) < n THEN Len(s) ELSE n)

----------------------------------------------------------------------------
(* The runs. *)

Init ==
    /\ uploaded_file = <<>>
    /\ pc = "idle"
    /\ error = ""
    /\ df = <<>>
    /\ country = <<>>
    /\ daily_sales = <<>>
    /\ daily_units = <<>>
    /\ model = <<>>
    /\ requested_days = 0
    /\ forecast_days = 0
    /\ forecasted_sales = <<>>
    /\ forecast_df = <<>>
    /\ product_sales = <<>>
    /\ top_products = <<>>

\* A run starts with nothing computed.
StartRun ==
    /\ pc' = "read"
    /\ error' = ""
    /\ df' = <<>>
    /\ country' = <<>>
    /\ daily_sales' = <<>>
    /\ daily_units' = <<>>
    /\ model' = <<>>
    /\ requested_days' = 0
    /\ forecast_days' = 0
    /\ forecasted_sales' = <<>>
    /\ forecast_df' = <<>>
    /\ product_sales' = <<>>
    /\ top_products' = <<>>

\* The user uploads a file into the empty uploader; the script runs.
Upload ==
    /\ pc = "idle"
    /\ \E f \in InputFiles : uploaded_file' = <<f>>
    /\ StartRun

\* The user changes a widget; the script runs again on the same file.
Rerun ==
    /\ pc \in {"done", "error"}
    /\ UNCHANGED uploaded_file
    /\ StartRun

\* The user removes the file; the script shows the upload prompt.
RemoveFile ==
    /\ pc \in {"done", "error"}
    /\ uploaded_file' = <<>>
    /\ pc' = "idle"
    /\ error' = ""
    /\ df' = <<>>
    /\ country' = <<>>
    /\ daily_sales' = <<>>
    /\ daily_units' = <<>>
    /\ model' = <<>>
    /\ requested_days' = 0
    /\ forecast_days' = 0
    /\ forecasted_sales' = <<>>
    /\ forecast_df' = <<>>
    /\ product_sales' = <<>>
    /\ top_products' = <<>>

\* Lines 37-41.  to_datetime raises on a date it cannot parse.
ReadAndClean ==
    /\ pc = "read"
    /\ LET kept == DropNa(uploaded_file[1])
       IN  IF \E i \in 1..Len(kept) : ~Parseable(kept[i].InvoiceDate)
           THEN /\ pc' = "error"
                /\ error' = "DateParseError"
                /\ UNCHANGED df
           ELSE /\ pc' = "select"
                /\ df' = [i \in 1..Len(kept) |-> Record(kept[i])]
                /\ UNCHANGED error
    /\ UNCHANGED <<uploaded_file, country, daily_sales, daily_units, model,
                   requested_days, forecast_days, forecasted_sales,
                   forecast_df,
                   product_sales, top_products>>

\* Lines 45-46.  The selectbox returns one of its options, None without any.
SelectCountry ==
    /\ pc = "select"
    /\ IF CountryOptions(df) = {}
       THEN /\ country' = <<>>
            /\ df' = <<>>
       ELSE \E c \in CountryOptions(df) :
                /\ country' = <<c>>
                /\ df' = FilterCountry(df, c)
    /\ pc' = "aggregate"
    /\ UNCHANGED <<uploaded_file, error, daily_sales, daily_units, model,
                   requested_days, forecast_days, forecasted_sales,
                   forecast_df,
                   product_sales, top_products>>

\* Lines 49-54.
Aggregate ==
    /\ pc = "aggregate"
    /\ daily_sales' = DailySales(df)
    /\ daily_units' = DailyUnits(df)
    /\ pc' = "fit"
    /\ UNCHANGED <<uploaded_file, error, df, country, model, requested_days,
                   forecast_days,
                   forecasted_sales, forecast_df, product_sales, top_products>>

\* Lines 74-79.  fit raises ValueError on a frame without rows.
FitModel ==
    /\ pc = "fit"
    /\ IF Len(daily_sales) = 0
       THEN /\ pc' = "error"
            /\ error' = "ValueError"
            /\ UNCHANGED model
       ELSE /\ model' = <<Fit(DayNumbers(Len(daily_sales)),
                              [i \in 1..Len(daily_sales) |->
                                  daily_sales[i].daily_total_sales])>>
            /\ pc' = "forecast"
            /\ UNCHANGED error
    /\ UNCHANGED <<uploaded_file, df, country, daily_sales, daily_units,
                   requested_days, forecast_days, forecasted_sales,
                   forecast_df,
                   product_sales, top_products>>

\* Lines 82-91.  The slider returns the horizon asked for when it lies in its
\* range; a horizon beyond its ends cannot be set, and the slider returns
\* one of its own values.  The script has no other check of the horizon.
Forecast ==
    /\ pc = "forecast"
    /\ \E r \in HorizonRequests : \E h \in SliderValues :
        LET n     == Len(daily_sales)
            xs    == FutureDayNumbers(n, h)
            preds == [k \in 1..Len(xs) |-> Predict(model[1], xs[k])]
            last_date == daily_sales[n].date
            dates == FutureDates(last_date, h)
        IN  /\ r \in SliderValues => h = r
            /\ requested_days' = r
            /\ forecast_days' = h
            /\ forecasted_sales' = preds
            /\ forecast_df' =
                 [k \in 1..Len(dates) |->
                    [date |-> dates[k],
                     forecasted_sales |->
                        Round2(ClipLower(preds[k]), model[1].den)]]
    /\ pc' = "pie"
    /\ UNCHANGED <<uploaded_file, error, df, country, daily_sales,
                   daily_units, model, product_sales, top_products>>

\* ax.pie raises ValueError when a wedge size is negative.
HasNegativeWedge(top) == \E i \in 1..Len(top) : top[i].TotalSales < 0

\* No wedge is negative and the sizes add up to 0: the normalised sizes are
\* 0/0.  Whether drawing such a pie raises depends on the matplotlib build.
HasNoWedgeArea(top) ==
    /\ ~HasNegativeWedge(top)
    /\ SeqSum([i \in 1..Len(top) |-> top[i].TotalSales]) = 0

\* Lines 105-116.  The ranking and its head are assigned (lines 109-110)
\* before the pie chart is drawn (lines 112-116).
PieChart ==
    /\ pc = "pie"
    /\ \E s \in SortedDescending(ProductTotals(df)) :
        /\ product_sales' = s
        /\ top_products' = HeadN(s, PieTop)
        /\ \/ /\ HasNegativeWedge(HeadN(s, PieTop))
              /\ pc' = "error"
              /\ error' = "ValueError"
           \/ /\ HasNoWedgeArea(HeadN(s, PieTop))
              /\ pc' = "error"
              /\ error' = "ValueError"
           \/ /\ ~HasNegativeWedge(HeadN(s, PieTop))
              /\ pc' = "bar"
              /\ UNCHANGED error
    /\ UNCHANGED <<uploaded_file, df, country, daily_sales,
                   daily_units, model, requested_days, forecast_days,
                   forecasted_sales,
                   forecast_df>>

\* Lines 122-123.  The same sort of the same totals gives the same order.
BarChart ==
    /\ pc = "bar"
    /\ \E s \in SortedDescending(ProductTotals(df)) :
        /\ s = product_sales
        /\ product_sales' = s
        /\ top_products' = HeadN(s, BarTop)
    /\ pc' = "done"
    /\ UNCHANGED <<uploaded_file, error, df, country, daily_sales,
                   daily_units, model, requested_days, forecast_days,
                   forecasted_sales,
                   forecast_df>>

Next ==
    \/ Upload
    \/ Rerun
    \/ RemoveFile
    \/ ReadAndClean
    \/ SelectCountry
    \/ Aggregate
    \/ FitModel
    \/ Forecast
    \/ PieChart
    \/ BarChart

Spec == Init /\ [][Next]_vars

----------------------------------------------------------------------------
(* Properties. *)

\* The daily series have been computed in this run.
Aggregated ==
    \/ pc \in {"fit", "forecast", "pie", "bar", "done"}
    \/ pc = "error" /\ error = "ValueError"

\* The forecast has been computed in this run.
Forecasted ==
    \/ pc \in {"pie", "bar", "done"}
    \/ pc = "error" /\ forecast_df # <<>>

\* The run ended when the pie chart of the top 5 was drawn.
PieRaised == pc = "error" /\ top_products # <<>>

\* Calendar dates of the selected country's transactions.
TransactionDates == {DateOf(df[i].InvoiceDate) : i \in 1..Len(df)}

SalesValues == [i \in 1..Len(daily_sales) |-> daily_sales[i].daily_total_sales]

Abs(x) == IF x < 0 THEN -x ELSE x

SwapAdjacent(s, j) ==
    [i \in 1..Len(s) |-> IF i = j THEN s[j + 1] ELSE IF i = j + 1 THEN s[j] ELSE s[i]]

\* The daily revenue series of a file's rows for one country.
DailySeriesOf(rows, c) ==
    LET kept == DropNa(rows)
    IN  DailySales(FilterCountry([i \in 1..Len(kept) |-> Record(kept[i])], c))

\* C1: for a non-empty country-filtered record set, the daily revenue and
\* units series have one point per calendar day from the earliest to the
\* latest transaction date, in increasing order without gap or duplicate,
\* and a day without transactions has revenue 0 and units 0.
C1_ZeroFillComplete ==
    (Aggregated /\ df # <<>>) =>
        LET lo == SetMin(TransactionDates)
            hi == SetMax(TransactionDates)
        IN  /\ Len(daily_sales) = hi - lo + 1
            /\ Len(daily_units) = hi - lo + 1
            /\ \A i \in 1..(hi - lo + 1) :
                /\ daily_sales[i].date = lo + i - 1
                /\ daily_units[i].date = lo + i - 1
                /\ (lo + i - 1) \notin TransactionDates =>
                      /\ daily_sales[i].daily_total_sales = 0
                      /\ daily_units[i].daily_units_sold = 0

\* A series with a day between two transaction days that has none itself.
C1_Witness ==
    /\ Aggregated
    /\ Len(df) = 2
    /\ Len(daily_sales) = 3
    /\ daily_sales[2].date \notin TransactionDates
    /\ daily_sales[2].daily_total_sales = 0
    /\ daily_units[2].daily_units_sold = 0

\* C2: the daily revenues add up to the sum of Quantity x UnitPrice over
\* exactly the cleaned rows of the selected country, and the series is the
\* same for every order of the input rows (every exchange of two neighbours).
C2_RevenueIdentity ==
    (Aggregated /\ country # <<>>) =>
        LET rows    == uploaded_file[1]
            cleaned == DropNa(rows)
            revenue == [i \in 1..Len(cleaned) |->
                           cleaned[i].Quantity[1] * cleaned[i].UnitPrice[1]]
            matching == {i \in 1..Len(cleaned) : cleaned[i].Country = country}
        IN  /\ SeqSum(SalesValues) = SetSum(revenue, matching)
            /\ \A j \in 1..(Len(rows) - 1) :
                  DailySeriesOf(SwapAdjacent(rows, j), country[1]) = daily_sales

\* Two countries in the file, a return among the selected country's rows.
C2_Witness ==
    /\ pc = "pie"
    /\ Len(df) = 1
    /\ Len(DropNa(uploaded_file[1])) = 2
    /\ df[1].Quantity < 0
    /\ SeqSum(SalesValues) = -100

\* C3 (as claimed): every forecast value is >= 0, is 0 where the fitted line
\* is negative, and is the fitted line's value itself where that is >= 0.
C3_EmittedIsLineValue ==
    Forecasted =>
        \A k \in 1..Len(forecast_df) :
            LET raw == forecasted_sales[k]
                out == forecast_df[k].forecasted_sales
            IN  /\ out >= 0
                /\ raw < 0 => out = 0
                /\ raw >= 0 => out * model[1].den = RoundScale * raw

\* C3 (amended): every forecast value is >= 0, is 0 where the fitted line is
\* negative, and is the fitted line's value rounded to two decimals (within
\* half a hundredth of it) where that is >= 0.
C3_ClampedAndRounded ==
    Forecasted =>
        \A k \in 1..Len(forecast_df) :
            LET raw == forecasted_sales[k]
                out == forecast_df[k].forecasted_sales
            IN  /\ out >= 0
                /\ raw < 0 => out = 0
                /\ raw >= 0 =>
                      2 * Abs(out * model[1].den - RoundScale * raw)
                          <= model[1].den

\* A forecast with a value that is not a whole number of hundredths.
C3_Witness ==
    /\ Forecasted
    /\ \E k \in 1..Len(forecast_df) :
          /\ forecasted_sales[k] > 0
          /\ (RoundScale * forecasted_sales[k]) % model[1].den # 0
          /\ forecast_df[k].forecasted_sales > 0

\* C4: the forecast has exactly forecast_days points, dated the consecutive
\* days last_date + 1 .. last_date + forecast_days after the daily series'
\* last date.
C4_ForecastContiguity ==
    Forecasted =>
        LET last_date == daily_sales[Len(daily_sales)].date
        IN  /\ forecast_days > 0
            /\ Len(forecast_df) = forecast_days
            /\ \A k \in 1..Len(forecast_df) :
                  forecast_df[k].date = last_date + k

\* A week's forecast after a series of several days.
C4_Witness ==
    /\ Forecasted
    /\ Len(daily_sales) = 3
    /\ Len(forecast_df) = 7
    /\ forecast_df[1].date = daily_sales[3].date + 1
    /\ forecast_df[7].date = daily_sales[3].date + 7

\* C5: an empty data set (no row left after cleaning, or none for the
\* country) never ends the run in an unhandled error.
C5_EmptyDatasetIsResult ==
    (df = <<>> /\ pc = "error") => error = "DateParseError"

C6_ForecastOnlyInRange ==
    (forecast_df # <<>> \/ forecasted_sales # <<>>) =>
        /\ forecast_days \in 7..90
        /\ Len(forecast_df) = forecast_days
        /\ Len(forecasted_sales) = forecast_days
        /\ requested_days \in 7..90 => forecast_days = requested_days

\* C7: with fewer than 2 daily points no regression is fitted and no
\* forecast is produced.
C7_InsufficientHistoryHandled ==
    (Aggregated /\ Len(daily_sales) < 2) =>
        (model = <<>> /\ forecast_df = <<>>)

\* The rows a file's cleaning is claimed to keep: those whose five required
\* cells are present and whose date parses.
RequiredOk(r) ==
    /\ \A col \in {"InvoiceDate", "Quantity", "UnitPrice", "Country",
                   "Description"} : r[col] # Null
    /\ Parseable(r.InvoiceDate)

\* C8: cleaning never fails on a row; it keeps exactly the rows whose
\* required fields are all present and parseable, unchanged.
C8_CleaningRule ==
    /\ error # "DateParseError"
    /\ pc = "select" =>
          LET want == SelectSeq(uploaded_file[1], RequiredOk)
          IN  /\ Len(df) = Len(want)
              /\ \A i \in 1..Len(want) :
                    /\ df[i].InvoiceDate = ToDatetime(want[i].InvoiceDate)
                    /\ df[i].Quantity = want[i].Quantity[1]
                    /\ df[i].UnitPrice = want[i].UnitPrice[1]
                    /\ df[i].Country = want[i].Country[1]
                    /\ df[i].Description = want[i].Description[1]

\* Products of the selected country's rows, and a product's revenue.
Products == {df[i].Description : i \in 1..Len(df)}

RevenueOf(desc) ==
    SetSum([i \in 1..Len(df) |-> df[i].Quantity * df[i].UnitPrice],
           {i \in 1..Len(df) : df[i].Description = desc})

\* The ranking holds the n best products (all, when there are fewer), each
\* once and with its revenue.
TopEntries(n) ==
    LET len    == Len(top_products)
        listed == {top_products[i].Description : i \in 1..len}
    IN  /\ len = IF Cardinality(Products) < n THEN Cardinality(Products) ELSE n
        /\ listed \subseteq Products
        /\ Cardinality(listed) = len
        /\ \A i \in 1..len :
              top_products[i].TotalSales = RevenueOf(top_products[i].Description)
        /\ \A d \in Products \ listed : \A i \in 1..len :
              RevenueOf(d) <= top_products[i].TotalSales

NonIncreasing ==
    \A i \in 1..(Len(top_products) - 1) :
        top_products[i].TotalSales >= top_products[i + 1].TotalSales

StrictlyDecreasing ==
    \A i \in 1..(Len(top_products) - 1) :
        top_products[i].TotalSales > top_products[i + 1].TotalSales

PieGuardsBar ==
    /\ pc \in {"bar", "done"} =>
          \A i \in 1..Len(top_products) : top_products[i].TotalSales >= 0
    /\ PieRaised =>
          \/ \E i \in 1..Len(top_products) : top_products[i].TotalSales < 0
          \/ \A i \in 1..Len(top_products) : top_products[i].TotalSales = 0

C10_TrendFit ==
    model # <<>> =>
        LET m == model[1]
            n == Len(daily_sales)
            Residual(i) ==
                m.den * SalesValues[i] - (m.intercept_num + m.coef_num * (i - 1))
        IN  /\ m.den > 0
            /\ SeqSum([i \in 1..n |-> Residual(i)]) = 0
            /\ SeqSum([i \in 1..n |-> (i - 1) * Residual(i)]) = 0
            /\ Forecasted =>
                  /\ Len(forecasted_sales) = forecast_days
                  /\ \A k \in 1..forecast_days :
                        forecasted_sales[k] =
                            m.intercept_num + m.coef_num * (n + k - 1)
            /\ SalesValues = <<100, 200>> =>
                  /\ m.coef_num = 100 * m.den
                  /\ m.intercept_num = 100 * m.den
                  /\ Forecasted => forecasted_sales[1] = 300 * m.den

\* The series (100, 200), starting after day 0, fitted and forecast.
C10_Witness ==
    /\ Forecasted
    /\ SalesValues = <<100, 200>>
    /\ daily_sales[1].date = 1
    /\ forecasted_sales[1] = 300 * model[1].den

====
